---- MODULE Spec2Model ----
(***************************************************************************)
(* Model of vec_mem_heap's Garden<T> (src/src/lib.rs): a Vec of memory     *)
(* slots, each Free(next) or Occupied(Steward{data, rc}), plus the head of *)
(* an intrusive free list.  Handles are 0-based as in the source; the      *)
(* sequence `memory` is 1-based, so slot i of the Vec is memory[i + 1].    *)
(***************************************************************************)
EXTENDS Integers, Sequences, FiniteSets, TLC

\* ---------------------------------------------------------------- bounds
\* Largest number of slots the Vec is allowed to grow to.
MaxLen == 3
\* Stand-in for usize::MAX in RefCount: the largest representable count.
MaxCount == 3
\* Number of distinct payload values pushed or written.
NumValues == 2

Values == 1 .. NumValues
\* Stand-in for usize::MAX in index arithmetic: above every length the Vec
\* takes; unchecked index arithmetic wraps modulo UsizeMax + 1.
UsizeMax == MaxLen + 1
\* Handles a caller may pass: every slot position and one past the largest.
Handles == 0 .. MaxLen

VARIABLES
    memory,           \* Garden.memory : Vec<MemorySlot<T>>
    first_free,       \* Garden.first_free : Option<Index>
    last,             \* the call just made (operation, arguments, result), if any
    ledger,           \* caller-side bookkeeping of references handed out
    reclaimed,        \* handle collected last, no free or allocation since
    doc,              \* calls of the crate-level example made so far, or Off
    lifo              \* handles collected and not yet handed out again

vars == <<memory, first_free, last, ledger, reclaimed, doc, lifo>>

\* The two ways a build treats usize overflow: TRUE = overflow checks on (the
\* operation panics), FALSE = off (the result wraps).  Every call takes
\* either outcome.
Builds == BOOLEAN

\* ------------------------------------------------------- Option and Result
None == <<>>
Some(x) == <<x>>
IsSome(o) == o # <<>>
Unwrap(o) == o[1]
\* Option::unwrap_or
unwrap_or(o, d) == IF IsSome(o) THEN o[1] ELSE d

\* Every result of a call is a record of the same shape.
Res(tag, what, n) == [tag |-> tag, what |-> what, n |-> n]
Ok(what, n) == Res("Ok", what, n)
OutOfBoundsMemory(i) == Res("Err", "OutOfBoundsMemory", i)
FreeMemory(i) == Res("Err", "FreeMemory", i)
OwnershipOverflow == Res("Err", "OwnershipOverflow", 0)
MisalignedTypes == Res("Err", "MisalignedTypes", 0)
\* A panic (abort by unwinding): arithmetic overflow or Vec index out of range.
Panic == Res("Panic", "panic", 0)
IsOk(r) == r.tag = "Ok"
IsErr(r) == r.tag = "Err"
IsPanic(r) == r.tag = "Panic"

\* ------------------------------------------------------------------ slots
Free(next) == [tag |-> "Free", next |-> next, data |-> 0, rc |-> 0]
Occupied(data, rc) == [tag |-> "Occupied", next |-> 0, data |-> data, rc |-> rc]
\* steward starting with no owner.
steward_unowned(data) == Occupied(data, 0)
\* MemorySlot::steward
steward(data) == Occupied(data, 1)
IsFree(s) == s.tag = "Free"
IsOccupied(s) == s.tag = "Occupied"

\* self.memory[i] for an index that is in range
At(mem, i) == mem[i + 1]
\* self.memory[i] = s
SetAt(mem, i, s) == [mem EXCEPT ![i + 1] = s]
InRange(mem, i) == i >= 0 /\ i < Len(mem)

\* usize subtraction and addition as the build performs them: a panic when
\* overflow checks are on, wrap-around otherwise.
usize_sub(a, b, checks) ==
    IF a >= b THEN [panic |-> FALSE, n |-> a - b]
    ELSE IF checks THEN [panic |-> TRUE, n |-> 0]
    ELSE [panic |-> FALSE, n |-> (a - b) % (UsizeMax + 1)]
usize_add(a, b, checks) ==
    IF a + b <= UsizeMax THEN [panic |-> FALSE, n |-> a + b]
    ELSE IF checks THEN [panic |-> TRUE, n |-> 0]
    ELSE [panic |-> FALSE, n |-> (a + b) % (UsizeMax + 1)]

\* Garden::last_index
last_index(mem, checks) == usize_sub(Len(mem), 1, checks)

\* slot rejecting the last index as out of bounds.
slot_off_by_one(mem, index, checks) ==
    LET li == last_index(mem, checks) IN
    IF li.panic THEN Panic
    ELSE IF index >= li.n THEN OutOfBoundsMemory(index)
    ELSE IF ~InRange(mem, index) THEN Panic
    ELSE IF IsFree(At(mem, index)) THEN FreeMemory(index)
    ELSE Ok("Slot", index)

\* Garden::slot and Garden::mut_slot (same body): the error, a panic, or
\* Ok with the position of the occupied slot.
slot(mem, index, checks) ==
    LET li == last_index(mem, checks) IN
    IF li.panic THEN Panic
    ELSE IF index > li.n THEN OutOfBoundsMemory(index)
    ELSE IF ~InRange(mem, index) THEN Panic
    ELSE IF IsFree(At(mem, index)) THEN FreeMemory(index)
    ELSE Ok("Slot", index)
mut_slot(mem, index, checks) == slot(mem, index, checks)

\* Garden::data
data(mem, index, checks) ==
    LET s == slot(mem, index, checks) IN
    IF ~IsOk(s) THEN s
    ELSE Ok("Data", At(mem, index).data)

\* reserve_index emptying the free list whatever the successor is.
reserve_index_drop(mem, ff) ==
    IF ~IsSome(ff) THEN [idx |-> None, ff |-> ff, panic |-> FALSE]
    ELSE IF ~InRange(mem, Unwrap(ff)) THEN [idx |-> None, ff |-> ff, panic |-> TRUE]
    ELSE IF IsFree(At(mem, Unwrap(ff)))
         THEN [idx |-> ff, ff |-> None, panic |-> FALSE]
    ELSE [idx |-> None, ff |-> ff, panic |-> FALSE]

\* Garden::reserve_index: the reserved index (an Option) and the new head.
reserve_index(mem, ff) ==
    IF ~IsSome(ff) THEN [idx |-> None, ff |-> ff, panic |-> FALSE]
    ELSE IF ~InRange(mem, Unwrap(ff)) THEN [idx |-> None, ff |-> ff, panic |-> TRUE]
    ELSE IF IsFree(At(mem, Unwrap(ff)))
         THEN IF At(mem, Unwrap(ff)).next = Unwrap(ff)
              THEN [idx |-> ff, ff |-> None, panic |-> FALSE]
              ELSE [idx |-> ff, ff |-> Some(At(mem, Unwrap(ff)).next), panic |-> FALSE]
    ELSE [idx |-> None, ff |-> ff, panic |-> FALSE]

\* push that also makes the new head of the free list its own successor.
push_relink(mem, ff, v) ==
    LET r == reserve_index(mem, ff) IN
    IF r.panic THEN [memory |-> mem, first_free |-> ff, ret |-> Panic]
    ELSE IF IsSome(r.idx)
         THEN [memory |-> IF IsSome(r.ff)
                          THEN SetAt(SetAt(mem, Unwrap(r.idx), steward(v)),
                                     Unwrap(r.ff), Free(Unwrap(r.ff)))
                          ELSE SetAt(mem, Unwrap(r.idx), steward(v)),
               first_free |-> r.ff,
               ret |-> Ok("Index", Unwrap(r.idx))]
         ELSE [memory |-> Append(mem, steward(v)),
               first_free |-> r.ff,
               ret |-> Ok("Index", Len(mem))]

\* Garden::push as a function of the store: new memory, new head, result.
push(mem, ff, v) ==
    LET r == reserve_index(mem, ff) IN
    IF r.panic THEN [memory |-> mem, first_free |-> ff, ret |-> Panic]
    ELSE IF IsSome(r.idx)
         THEN [memory |-> SetAt(mem, Unwrap(r.idx), steward(v)),
               first_free |-> r.ff,
               ret |-> Ok("Index", Unwrap(r.idx))]
         ELSE [memory |-> Append(mem, steward(v)),
               first_free |-> r.ff,
               ret |-> Ok("Index", Len(mem))]

\* Ownership
Fine(n) == [own |-> "Fine", n |-> n]
Dangling == [own |-> "Dangling", n |-> 0]
Abs(d) == IF d < 0 THEN 0 - d ELSE d
\* usize::checked_sub and usize::checked_add
checked_sub(a, b) == IF a >= b THEN Some(a - b) ELSE None
\* checked_add behaving as wrapping_add.
checked_add_wrapping(a, b) == Some((a + b) % (MaxCount + 1))
checked_add(a, b) == IF a + b <= MaxCount THEN Some(a + b) ELSE None

\* modify_owners reporting Dangling one reference too early.
modify_owners_early(rc, delta) ==
    LET new_ref_count == IF delta < 0 THEN checked_sub(rc, Abs(delta))
                         ELSE checked_add(rc, delta) IN
    IF ~IsSome(new_ref_count) THEN [err |-> TRUE, rc |-> rc, own |-> Dangling]
    ELSE [err |-> FALSE, rc |-> Unwrap(new_ref_count),
          own |-> IF Unwrap(new_ref_count) <= 1 THEN Dangling
                  ELSE Fine(Unwrap(new_ref_count))]

\* RefCount::modify_owners: an error that leaves the count alone, or the new
\* count and its Ownership.
modify_owners(rc, delta) ==
    LET new_ref_count == IF delta < 0 THEN checked_sub(rc, Abs(delta))
                         ELSE checked_add(rc, delta) IN
    IF ~IsSome(new_ref_count) THEN [err |-> TRUE, rc |-> rc, own |-> Dangling]
    ELSE [err |-> FALSE, rc |-> Unwrap(new_ref_count),
          own |-> IF Unwrap(new_ref_count) = 0 THEN Dangling
                  ELSE Fine(Unwrap(new_ref_count))]

\* status that reports a single owner as none.
rc_status_eager(rc) == IF rc <= 1 THEN Dangling ELSE Fine(rc)

\* RefCount::status
rc_status(rc) == IF rc = 0 THEN Dangling ELSE Fine(rc)

\* Garden::status
status(mem, index, checks) ==
    LET s == slot(mem, index, checks) IN
    IF ~IsOk(s) THEN s
    ELSE LET o == rc_status(At(mem, index).rc) IN Ok(o.own, o.n)

\* free_index appending the slot behind the head instead of making it the head.
free_index_keep_head(mem, ff, index, checks) ==
    LET s == mut_slot(mem, index, checks) IN
    IF IsPanic(s) THEN [memory |-> mem, first_free |-> ff, ret |-> None, panic |-> TRUE]
    ELSE IF ~IsOk(s) THEN [memory |-> mem, first_free |-> ff, ret |-> None, panic |-> FALSE]
    ELSE IF ~IsSome(ff)
         THEN [memory |-> SetAt(mem, index, Free(index)), first_free |-> Some(index),
               ret |-> Some(At(mem, index).data), panic |-> FALSE]
         ELSE [memory |-> SetAt(SetAt(mem, index, Free(IF At(mem, Unwrap(ff)).next = Unwrap(ff)
                                                        THEN index
                                                        ELSE At(mem, Unwrap(ff)).next)),
                                 Unwrap(ff), Free(index)),
               first_free |-> ff,
               ret |-> Some(At(mem, index).data), panic |-> FALSE]

\* free_index that makes every freed slot its own successor.
free_index_self(mem, ff, index, checks) ==
    LET s == mut_slot(mem, index, checks) IN
    IF IsPanic(s) THEN [memory |-> mem, first_free |-> ff, ret |-> None, panic |-> TRUE]
    ELSE IF ~IsOk(s) THEN [memory |-> mem, first_free |-> ff, ret |-> None, panic |-> FALSE]
    ELSE [memory |-> SetAt(mem, index, Free(index)),
          first_free |-> Some(index),
          ret |-> Some(At(mem, index).data),
          panic |-> FALSE]

\* Garden::free_index: the data moved out (an Option) and the new store.
free_index(mem, ff, index, checks) ==
    LET s == mut_slot(mem, index, checks) IN
    IF IsPanic(s) THEN [memory |-> mem, first_free |-> ff, ret |-> None, panic |-> TRUE]
    ELSE IF ~IsOk(s) THEN [memory |-> mem, first_free |-> ff, ret |-> None, panic |-> FALSE]
    ELSE [memory |-> SetAt(mem, index, Free(unwrap_or(ff, index))),
          first_free |-> Some(index),
          ret |-> Some(At(mem, index).data),
          panic |-> FALSE]

\* Option<T> inside Result::Ok
OkOption(o) == IF IsSome(o) THEN Ok("Some", Unwrap(o)) ELSE Ok("None", 0)

\* add_owner that stores the wrapped count before it reports the overflow.
add_owner_dirty(mem, ff, index, checks) ==
    LET s == mut_slot(mem, index, checks) IN
    IF ~IsOk(s) THEN [memory |-> mem, first_free |-> ff, ret |-> s]
    ELSE LET m == modify_owners(At(mem, index).rc, 1) IN
         IF m.err THEN [memory |-> SetAt(mem, index, Occupied(At(mem, index).data, 1)),
                        first_free |-> ff, ret |-> OwnershipOverflow]
         ELSE [memory |-> SetAt(mem, index, Occupied(At(mem, index).data, m.rc)),
               first_free |-> ff, ret |-> Ok("Unit", 0)]

\* Garden::add_owner
add_owner(mem, ff, index, checks) ==
    LET s == mut_slot(mem, index, checks) IN
    IF ~IsOk(s) THEN [memory |-> mem, first_free |-> ff, ret |-> s]
    ELSE LET m == modify_owners(At(mem, index).rc, 1) IN
         IF m.err THEN [memory |-> mem, first_free |-> ff, ret |-> OwnershipOverflow]
         ELSE [memory |-> SetAt(mem, index, Occupied(At(mem, index).data, m.rc)),
               first_free |-> ff, ret |-> Ok("Unit", 0)]

\* remove_owner that leaves the slot in place when its last owner goes.
remove_owner_keep(mem, ff, index, checks) ==
    LET s == mut_slot(mem, index, checks) IN
    IF ~IsOk(s) THEN [memory |-> mem, first_free |-> ff, ret |-> s]
    ELSE LET m == modify_owners(At(mem, index).rc, 0 - 1) IN
         IF m.err THEN [memory |-> mem, first_free |-> ff, ret |-> OwnershipOverflow]
         ELSE [memory |-> SetAt(mem, index, Occupied(At(mem, index).data, m.rc)),
               first_free |-> ff,
               ret |-> IF m.own = Dangling THEN Ok("Some", At(mem, index).data)
                       ELSE Ok("None", 0)]

\* Garden::remove_owner
remove_owner(mem, ff, index, checks) ==
    LET s == mut_slot(mem, index, checks) IN
    IF ~IsOk(s) THEN [memory |-> mem, first_free |-> ff, ret |-> s]
    ELSE LET m == modify_owners(At(mem, index).rc, 0 - 1)
             counted == SetAt(mem, index, Occupied(At(mem, index).data, m.rc)) IN
         IF m.err THEN [memory |-> mem, first_free |-> ff, ret |-> OwnershipOverflow]
         ELSE IF m.own = Dangling
              THEN LET f == free_index(counted, ff, index, checks) IN
                   [memory |-> f.memory, first_free |-> f.first_free,
                    ret |-> IF f.panic THEN Panic ELSE OkOption(f.ret)]
              ELSE [memory |-> counted, first_free |-> ff, ret |-> Ok("None", 0)]

\* Garden::free_if_dangling
free_if_dangling(mem, ff, index, checks) ==
    LET st == status(mem, index, checks) IN
    IF ~IsOk(st) THEN [memory |-> mem, first_free |-> ff, ret |-> st]
    ELSE IF st.what = "Fine" THEN [memory |-> mem, first_free |-> ff, ret |-> Ok("None", 0)]
    ELSE LET f == free_index(mem, ff, index, checks) IN
         [memory |-> f.memory, first_free |-> f.first_free,
          ret |-> IF f.panic THEN Panic ELSE OkOption(f.ret)]

\* Garden::remove_memory_leaks: the loop from `cell` up to the length.
RECURSIVE leaks_from(_, _, _, _)
leaks_from(mem, ff, cell, checks) ==
    IF cell >= Len(mem) THEN [memory |-> mem, first_free |-> ff, ret |-> Ok("Unit", 0)]
    ELSE LET s == mut_slot(mem, cell, checks) IN
         IF IsPanic(s) THEN [memory |-> mem, first_free |-> ff, ret |-> Panic]
         ELSE IF ~IsOk(s) THEN leaks_from(mem, ff, cell + 1, checks)
         ELSE IF rc_status(At(mem, cell).rc) = Dangling
              THEN LET f == free_index(mem, ff, cell, checks) IN
                   IF f.panic THEN [memory |-> f.memory, first_free |-> f.first_free, ret |-> Panic]
                   ELSE leaks_from(f.memory, f.first_free, cell + 1, checks)
              ELSE leaks_from(mem, ff, cell + 1, checks)
remove_memory_leaks(mem, ff, checks) == leaks_from(mem, ff, 0, checks)

\* Garden::replace
replace(mem, ff, index, new_data, checks) ==
    LET s == mut_slot(mem, index, checks) IN
    IF ~IsOk(s) THEN [memory |-> mem, first_free |-> ff, ret |-> s]
    ELSE [memory |-> SetAt(mem, index, Occupied(new_data, At(mem, index).rc)),
          first_free |-> ff,
          ret |-> Ok("Data", At(mem, index).data)]

\* Garden::next_allocated.  unwrap_or takes its argument by value, so the
\* default Index(*self.last_index() + 1) is computed on every call.
next_allocated(mem, ff, checks) ==
    LET li == last_index(mem, checks) IN
    IF li.panic THEN Panic
    ELSE LET nx == usize_add(li.n, 1, checks) IN
         IF nx.panic THEN Panic
         ELSE Ok("Index", unwrap_or(ff, nx.n))

\* Garden::length
length(mem) == Len(mem)

\* ----------------------------------------------------------------- ledger
\* What the caller knows about a handle: never returned by push, live with
\* `owed` references added on top of the one push gave, or collected.
NoEntry == [state |-> "never", owed |-> 0]
LiveEntry(n) == [state |-> "live", owed |-> n]
CollectedEntry == [state |-> "collected", owed |-> 0]

\* A call: its arguments and its result.  `pre` is filled by push with the
\* handle that had just been collected when it was called, `remap` by the
\* compaction operations with the remap they return.
Call(op, h, v, ret) ==
    [op |-> op, h |-> h, v |-> v, ret |-> ret, pre |-> None, remap |-> {}]
\* No call is pending: the caller has taken the result of its last call.
NoCall == Call("none", 0, 0, Ok("Unit", 0))
\* The caller can make a call: nothing is pending and nothing has panicked.
Running == last = NoCall

\* The calls of the crate-level example (lib.rs lines 16-42), in order,
\* with payload 1 standing for 15 and payload 2 for 72.
DocCall(op, h, v) == [op |-> op, h |-> h, v |-> v]
DocExample ==
    << DocCall("push", 0, 1),          \* let data1 = mem_heap.push(15)
       DocCall("add_owner", 0, 0),     \* add_owner(data1)
       DocCall("push", 0, 2),          \* let data2 = mem_heap.push(72)
       DocCall("add_owner", 1, 0),     \* add_owner(data2)
       DocCall("add_owner", 0, 0),     \* add_owner(data3), data3 = data1
       DocCall("remove_owner", 1, 0),  \* remove_owner(data2)
       DocCall("remove_owner", 0, 0),  \* remove_owner(data3)
       DocCall("remove_owner", 0, 0),  \* remove_owner(data1)
       DocCall("data", 0, 0),          \* data(Index(0))
       DocCall("data", 1, 0) >>        \* data(Index(1))
\* The run has left the example.
Off == 0 - 1
\* How far the run is in the example once `call` has been made.
Follow(d, call) ==
    IF d >= 0 /\ d < Len(DocExample)
       /\ DocCall(call.op, call.h, call.v) = DocExample[d + 1]
    THEN d + 1
    ELSE Off

\* The caller's record of released handles.  `stack` holds the handles
\* collected and not handed out since, oldest first.  The other fields
\* follow one scenario, and any other call clears them: `col` counts the
\* collections made in a row starting with no handle outstanding, `run` the
\* pushes made in a row after them, `grew` says a further push found the
\* stack empty.
Lifo(stack, col, run, grew) ==
    [stack |-> stack, col |-> col, run |-> run, grew |-> grew]
\* The call handed a collected value back to the caller.
Collected(call) ==
    call.op \in {"remove_owner", "free_if_dangling"} /\ call.ret.what = "Some"
Front(q) == SubSeq(q, 1, Len(q) - 1)
\* The record once `call` has returned.
Track(l, call) ==
    IF Collected(call)
    THEN Lifo(Append(l.stack, call.h),
              IF l.stack = <<>> THEN 1
              ELSE IF l.col > 0 /\ l.run = 0 THEN l.col + 1 ELSE 0,
              0, FALSE)
    ELSE IF call.op = "push" /\ IsOk(call.ret)
    THEN IF l.stack # <<>>
         THEN IF l.col > 0 /\ ~l.grew
              THEN Lifo(Front(l.stack), l.col, l.run + 1, FALSE)
              ELSE Lifo(Front(l.stack), 0, 0, FALSE)
         ELSE IF l.col > 0 /\ l.run = l.col /\ ~l.grew
              THEN Lifo(<<>>, l.col, l.run, TRUE)
              ELSE Lifo(<<>>, 0, 0, FALSE)
    ELSE Lifo(l.stack, 0, 0, FALSE)

\* ------------------------------------------------------------------- Init
\* Garden::new
Init ==
    /\ memory = <<>>
    /\ first_free = None
    /\ reclaimed = None
    /\ last = Call("new", 0, 0, Ok("Unit", 0))
    /\ ledger = [h \in Handles |-> NoEntry]
    /\ doc = 0
    /\ lifo = Lifo(<<>>, 0, 0, FALSE)

\* ---------------------------------------------------------------- actions
Push(v) ==
    LET p == push(memory, first_free, v) IN
    /\ Running
    /\ Len(p.memory) <= MaxLen
    /\ memory' = p.memory
    /\ first_free' = p.first_free
    /\ last' = [Call("push", 0, v, p.ret) EXCEPT !.pre = reclaimed]
    /\ ledger' = IF IsOk(p.ret) THEN [ledger EXCEPT ![p.ret.n] = LiveEntry(0)]
                 ELSE ledger
    /\ reclaimed' = None
    /\ doc' = Follow(doc, last')
    /\ lifo' = Track(lifo, last')

Data(h) ==
    /\ Running
    /\ \E r \in {data(memory, h, c) : c \in Builds} :
          last' = Call("data", h, 0, r)
    /\ UNCHANGED <<memory, first_free, ledger, reclaimed>>
    /\ doc' = Follow(doc, last')
    /\ lifo' = Track(lifo, last')

Status(h) ==
    /\ Running
    /\ \E r \in {status(memory, h, c) : c \in Builds} :
          last' = Call("status", h, 0, r)
    /\ UNCHANGED <<memory, first_free, ledger, reclaimed>>
    /\ doc' = Follow(doc, last')
    /\ lifo' = Track(lifo, last')

NextAllocated ==
    /\ Running
    /\ \E r \in {next_allocated(memory, first_free, c) : c \in Builds} :
          last' = Call("next_allocated", 0, 0, r)
    /\ UNCHANGED <<memory, first_free, ledger, reclaimed>>
    /\ doc' = Follow(doc, last')
    /\ lifo' = Track(lifo, last')

AddOwner(h) ==
    /\ Running
    /\ \E a \in {add_owner(memory, first_free, h, c) : c \in Builds} :
          /\ memory' = a.memory
          /\ first_free' = a.first_free
          /\ last' = Call("add_owner", h, 0, a.ret)
          /\ ledger' = IF IsOk(a.ret)
                       THEN [ledger EXCEPT ![h] = [@ EXCEPT !.owed = @ + 1]]
                       ELSE ledger
    /\ UNCHANGED reclaimed
    /\ doc' = Follow(doc, last')
    /\ lifo' = Track(lifo, last')

RemoveOwner(h) ==
    /\ Running
    /\ \E r \in {remove_owner(memory, first_free, h, c) : c \in Builds} :
          /\ memory' = r.memory
          /\ first_free' = r.first_free
          /\ last' = Call("remove_owner", h, 0, r.ret)
          /\ reclaimed' = IF r.ret.tag = "Ok" /\ r.ret.what = "Some" THEN Some(h)
                          ELSE reclaimed
    /\ ledger' = IF ledger[h].state # "live" THEN ledger
                 ELSE IF ledger[h].owed > 0
                      THEN [ledger EXCEPT ![h] = LiveEntry(@.owed - 1)]
                      ELSE [ledger EXCEPT ![h] = CollectedEntry]
    /\ doc' = Follow(doc, last')
    /\ lifo' = Track(lifo, last')

FreeIfDangling(h) ==
    /\ Running
    /\ \E f \in {free_if_dangling(memory, first_free, h, c) : c \in Builds} :
          /\ memory' = f.memory
          /\ first_free' = f.first_free
          /\ last' = Call("free_if_dangling", h, 0, f.ret)
          /\ reclaimed' = IF f.memory = memory THEN reclaimed ELSE None
    /\ UNCHANGED ledger
    /\ doc' = Follow(doc, last')
    /\ lifo' = Track(lifo, last')

RemoveMemoryLeaks ==
    /\ Running
    /\ \E l \in {remove_memory_leaks(memory, first_free, c) : c \in Builds} :
          /\ memory' = l.memory
          /\ first_free' = l.first_free
          /\ last' = Call("remove_memory_leaks", 0, 0, l.ret)
          /\ reclaimed' = IF l.memory = memory THEN reclaimed ELSE None
    /\ UNCHANGED ledger
    /\ doc' = Follow(doc, last')
    /\ lifo' = Track(lifo, last')

Replace(h, v) ==
    /\ Running
    /\ \E r \in {replace(memory, first_free, h, v, c) : c \in Builds} :
          /\ memory' = r.memory
          /\ first_free' = r.first_free
          /\ last' = Call("replace", h, v, r.ret)
    /\ UNCHANGED <<ledger, reclaimed>>
    /\ doc' = Follow(doc, last')
    /\ lifo' = Track(lifo, last')

\* The caller takes the result of the call it made (a panic ends the run).
Resume ==
    /\ last # NoCall
    /\ ~IsPanic(last.ret)
    /\ last' = NoCall
    /\ UNCHANGED <<memory, first_free, ledger, reclaimed, doc, lifo>>

Next ==
    \/ Resume
    \/ \E v \in Values : Push(v)
    \/ \E h \in Handles : Data(h)
    \/ \E h \in Handles : Status(h)
    \/ NextAllocated
    \/ \E h \in Handles : AddOwner(h)
    \/ \E h \in Handles : RemoveOwner(h)
    \/ \E h \in Handles : FreeIfDangling(h)
    \/ RemoveMemoryLeaks
    \/ \E h \in Handles, v \in Values : Replace(h, v)

Spec == Init /\ [][Next]_vars

\* ------------------------------------------------------------- compaction
\* defrag and trim are not part of src/src/lib.rs; they are modelled from the
\* specification's section 4.4 (two cursors, swap the first free slot from
\* the front with the first occupied slot from the back until they meet,
\* then rebuild the free list).
NumOccupied(mem) == Cardinality({i \in 0 .. Len(mem) - 1 : IsOccupied(At(mem, i))})

\* The two-cursor pass: the compacted memory and the remap old -> new.
RECURSIVE defrag_pass(_, _, _, _)
defrag_pass(mem, front, back, remap) ==
    IF front >= back THEN [memory |-> mem, remap |-> remap]
    ELSE IF IsOccupied(At(mem, front)) THEN defrag_pass(mem, front + 1, back, remap)
    ELSE IF IsFree(At(mem, back)) THEN defrag_pass(mem, front, back - 1, remap)
    ELSE defrag_pass(SetAt(SetAt(mem, front, At(mem, back)), back, Free(back)),
                     front + 1, back - 1, remap \cup {<<back, front>>})

\* The free list rebuilt over the free tail k .. length-1: each slot points
\* to the next one, the last one to itself.
rebuild_free_list(mem, k) ==
    [i \in 1 .. Len(mem) |->
        IF i - 1 < k THEN mem[i]
        ELSE Free(IF i = Len(mem) THEN i - 1 ELSE i)]

defrag(mem) ==
    LET pass == defrag_pass(mem, 0, Len(mem) - 1, {})
        k == NumOccupied(mem) IN
    [memory |-> rebuild_free_list(pass.memory, k),
     first_free |-> IF k < Len(mem) THEN Some(k) ELSE None,
     remap |-> pass.remap]

\* trim: defrag, then cut the store down to its occupied prefix.
trim(mem) ==
    LET d == defrag(mem)
        k == NumOccupied(mem) IN
    [memory |-> SubSeq(d.memory, 1, k),
     first_free |-> None,
     remap |-> d.remap]

\* The handle a caller holds for old handle h once it has applied the remap.
Remapped(remap, h) ==
    IF \E p \in remap : p[1] = h THEN (CHOOSE p \in remap : p[1] = h)[2] ELSE h

\* The caller's ledger after it has applied the remap to its handles.
remap_ledger(led, remap, mem) ==
    [h \in Handles |->
        IF \E p \in remap : p[2] = h THEN led[(CHOOSE p \in remap : p[2] = h)[1]]
        ELSE IF (\E p \in remap : p[1] = h) \/ ~InRange(mem, h) THEN NoEntry
        ELSE led[h]]

Defrag ==
    LET d == defrag(memory) IN
    /\ Running
    /\ memory' = d.memory
    /\ first_free' = d.first_free
    /\ last' = [Call("defrag", 0, 0, Ok("Remap", Cardinality(d.remap))) EXCEPT !.remap = d.remap]
    /\ ledger' = remap_ledger(ledger, d.remap, d.memory)
    /\ reclaimed' = None
    /\ doc' = Follow(doc, last')
    /\ lifo' = Lifo([i \in 1 .. Len(memory) - NumOccupied(memory) |-> Len(memory) - i], 0, 0, FALSE)

Trim ==
    LET t == trim(memory) IN
    /\ Running
    /\ memory' = t.memory
    /\ first_free' = t.first_free
    /\ last' = [Call("trim", 0, 0, Ok("Remap", Cardinality(t.remap))) EXCEPT !.remap = t.remap]
    /\ ledger' = remap_ledger(ledger, t.remap, t.memory)
    /\ reclaimed' = None
    /\ doc' = Follow(doc, last')
    /\ lifo' = Lifo(<<>>, 0, 0, FALSE)

NextCompact ==
    \/ Next
    \/ Defrag
    \/ Trim

\* The store with its compaction operations.
SpecCompact == Init /\ [][NextCompact]_vars

\* ----------------------------------------------------------------- claims
AnyFree(mem) == \E i \in 0 .. Len(mem) - 1 : IsFree(At(mem, i))
OccupiedAt(mem, i) == InRange(mem, i) /\ IsOccupied(At(mem, i))

C2_RoundTrip ==
    last.op = "push" =>
        /\ IsOk(last.ret)
        /\ \A c \in Builds :
              /\ data(memory, last.ret.n, c) = Ok("Data", last.v)
              /\ status(memory, last.ret.n, c) = Ok("Fine", 1)
\* A push into a store that had free slots, reusing slot 0.
C2_Witness ==
    /\ last.op = "push"
    /\ last.ret = Ok("Index", 0)
    /\ last.v = 2
    /\ Len(memory) > 1

\* C3: reuse.  With handle H collected and no free or allocation since, push
\* returns exactly H, leaves the length alone and every other occupied handle
\* still reads its previous value.
C3_Reuse ==
    [][(last'.op = "push" /\ IsSome(reclaimed)) =>
         /\ last'.ret = Ok("Index", Unwrap(reclaimed))
         /\ Len(memory') = Len(memory)
         /\ \A h \in 0 .. Len(memory) - 1 :
                (h # Unwrap(reclaimed) /\ IsOccupied(At(memory, h))) =>
                    \A c \in Builds : data(memory', h, c) = data(memory, h, c)]_vars
\* A push made right after a collection, beside another occupied slot and
\* with an older free slot in the list.
C3_Witness ==
    /\ last.op = "push"
    /\ IsSome(last.pre)
    /\ IsSome(first_free)
    /\ \E h \in 0 .. Len(memory) - 1 : h # last.ret.n /\ IsOccupied(At(memory, h))

\* C4: growth only when full.  push grows the store, by exactly one slot, if
\* and only if no slot is Free before the call; otherwise the length is kept
\* and the returned handle is one of a slot that was Free.
C4_GrowthOnlyWhenFull ==
    [][last'.op = "push" =>
         /\ IsOk(last'.ret)
         /\ Len(memory') \in {Len(memory), Len(memory) + 1}
         /\ (Len(memory') = Len(memory) + 1) <=> ~AnyFree(memory)
         /\ AnyFree(memory) =>
                /\ InRange(memory, last'.ret.n)
                /\ IsFree(At(memory, last'.ret.n))]_vars
\* A push that filled a free slot below the tail while another stays free.
C4_Witness ==
    /\ last.op = "push"
    /\ IsSome(first_free)
    /\ last.ret.n + 1 < Len(memory)
    /\ Len(memory) = MaxLen

\* What get must return according to the access rules.
ExpectedData(mem, h) ==
    IF h >= Len(mem) THEN OutOfBoundsMemory(h)
    ELSE IF IsFree(At(mem, h)) THEN FreeMemory(h)
    ELSE Ok("Data", At(mem, h).data)

\* C5: access errors of get.  In every reachable state, the empty store
\* included, data(h) is OutOfBoundsMemory for h >= length, FreeMemory for a
\* Free slot, the stored value otherwise; it never aborts and never changes
\* the store.
C5_GetAccessErrors ==
    [][last'.op = "data" =>
         /\ last'.ret = ExpectedData(memory, last'.h)
         /\ memory' = memory
         /\ first_free' = first_free]_vars

\* C6: prediction.  In every reachable state, the empty store included,
\* next_allocated returns, without changing the store, the handle the next
\* push returns: the head of the free list, or the length if no slot is Free.
C6_Prediction ==
    [][last'.op = "next_allocated" =>
         /\ memory' = memory
         /\ first_free' = first_free
         /\ last'.ret = push(memory, first_free, 1).ret
         /\ last'.ret = Ok("Index", IF AnyFree(memory) THEN Unwrap(first_free)
                                    ELSE Len(memory))]_vars

\* C7: replace.  On an occupied handle replace returns the old value, stores
\* the new one and changes nothing else (count, other slots, length, free
\* list); on a handle >= length or a Free slot it fails with the error of
\* get (OutOfBoundsMemory, FreeMemory) and changes nothing.
C7_Replace ==
    [][last'.op = "replace" =>
         LET h == last'.h IN
         /\ first_free' = first_free
         /\ IF OccupiedAt(memory, h)
            THEN /\ last'.ret = Ok("Data", At(memory, h).data)
                 /\ memory' = SetAt(memory, h, Occupied(last'.v, At(memory, h).rc))
                 /\ \A c \in Builds : data(memory', h, c) = Ok("Data", last'.v)
            ELSE /\ last'.ret = ExpectedData(memory, h)
                 /\ IsErr(last'.ret)
                 /\ memory' = memory]_vars

\* C8: reference overflow.  add_owner on an occupied slot whose count is the
\* largest representable fails with OwnershipOverflow and leaves the count;
\* with a smaller count it succeeds and raises the count by exactly one.
C8_ReferenceOverflow ==
    [][(last'.op = "add_owner" /\ OccupiedAt(memory, last'.h)) =>
         LET h == last'.h IN
         IF At(memory, h).rc = MaxCount
         THEN /\ last'.ret = OwnershipOverflow
              /\ memory' = memory
         ELSE /\ last'.ret = Ok("Unit", 0)
              /\ memory' = SetAt(memory, h, Occupied(At(memory, h).data,
                                                     At(memory, h).rc + 1))]_vars
\* An add_owner that was refused at the largest count.
C8_Witness ==
    /\ last.op = "add_owner"
    /\ last.ret = OwnershipOverflow
    /\ At(memory, last.h).rc = MaxCount

C10_TrimShrinks ==
    [][last'.op = "trim" =>
         /\ Len(memory') = NumOccupied(memory)
         /\ NumOccupied(memory) = 0 =>
                /\ Len(memory') = 0
                /\ \A c \in Builds :
                      next_allocated(memory', first_free', c) = Ok("Index", 0)]_vars
\* What the crate-level example says its calls return (the calls whose
\* result it states), by position in DocExample.
DocStated ==
    1 :> Ok("Index", 0) @@ 3 :> Ok("Index", 1) @@ 6 :> Ok("Some", 2) @@
    8 :> Ok("None", 0) @@ 9 :> Ok("Data", 1) @@ 10 :> FreeMemory(1)
\* The same with remove_owner(data2) leaving the second owner of Index(1).
DocActual ==
    1 :> Ok("Index", 0) @@ 3 :> Ok("Index", 1) @@ 6 :> Ok("None", 0) @@
    8 :> Ok("None", 0) @@ 9 :> Ok("Data", 1) @@ 10 :> Ok("Data", 2)

C12_OutOfRangeIsFreeMemory ==
    (last.op = "data" /\ last.h >= Len(memory)) => last.ret = FreeMemory(last.h)

\* Every Occupied slot of the store has at least one owner and status()
\* does not report it Dangling.
AllOwned(mem) ==
    \A h \in 0 .. Len(mem) - 1 :
        IsOccupied(At(mem, h)) =>
            /\ At(mem, h).rc >= 1
            /\ \A c \in Builds : status(mem, h, c).what # "Dangling"
\* A remove_owner on a slot with one owner has returned: the slot is Free.
LastOwnerGone ==
    \A h \in 0 .. Len(memory) - 1 :
        ( /\ IsOccupied(At(memory, h))
          /\ At(memory, h).rc = 1
          /\ last'.op = "remove_owner"
          /\ last'.h = h
          /\ ~IsPanic(last'.ret) )
        => /\ Len(memory') = Len(memory)
           /\ IsFree(At(memory', h))
           /\ last'.ret = Ok("Some", At(memory, h).data)

\* C13: in every state reachable by push, add_owner, remove_owner, replace,
\* free_if_dangling and remove_memory_leaks every Occupied slot has count
\* >= 1 and status never reports Dangling; a remove_owner that brings the
\* count to 0 leaves the slot Free when it returns.
C13_NoZeroCountOccupied == [](AllOwned(memory)) /\ [][LastOwnerGone]_vars
\* A last owner was removed while another value stays stored.
C13_Witness ==
    /\ last.op = "remove_owner"
    /\ last.ret.what = "Some"
    /\ IsFree(At(memory, last.h))
    /\ \E h \in 0 .. Len(memory) - 1 : IsOccupied(At(memory, h)) /\ At(memory, h).rc >= 2

\* The handles met by following successor pointers from h, for at most n
\* steps: the walk stops after a handle that is out of range, Occupied or
\* its own successor.
RECURSIVE free_walk(_, _, _)
free_walk(mem, h, n) ==
    IF n = 0 THEN <<>>
    ELSE IF ~InRange(mem, h) \/ ~IsFree(At(mem, h)) \/ At(mem, h).next = h
         THEN <<h>>
         ELSE <<h>> \o free_walk(mem, At(mem, h).next, n - 1)
\* The handles of the Free slots.
FreeHandles(mem) == {h \in 0 .. Len(mem) - 1 : IsFree(At(mem, h))}
\* The free list of a store with head ff is well formed.
WellFormed(mem, ff) ==
    /\ IsSome(ff) <=> FreeHandles(mem) # {}
    /\ IsSome(ff) =>
         LET w == free_walk(mem, Unwrap(ff), Len(mem) + 1) IN
         /\ \A i \in 1 .. Len(w) : InRange(mem, w[i]) /\ IsFree(At(mem, w[i]))
         /\ \A i, j \in 1 .. Len(w) : w[i] = w[j] => i = j
         /\ {w[i] : i \in 1 .. Len(w)} = FreeHandles(mem)
         /\ At(mem, w[Len(w)]).next = w[Len(w)]

\* C14: in every reachable state the walk from the free-list head visits
\* every Free slot exactly once, no Occupied slot and no out-of-range
\* handle, and ends at a Free slot that is its own successor; the head is
\* none exactly when no slot is Free.
C14_FreeListWellFormed == WellFormed(memory, first_free)
\* Two slots were released and are chained, next to an Occupied slot.
C14_Witness ==
    /\ last.op = "remove_owner"
    /\ last.ret.what = "Some"
    /\ Cardinality(FreeHandles(memory)) >= 2
    /\ At(memory, last.h).next # last.h
    /\ \E h \in 0 .. Len(memory) - 1 : IsOccupied(At(memory, h))

\* A step that ends the occupancy of handle h is a remove_owner(h) on a
\* slot with one owner.
OnlyLastRemoveFrees ==
    \A h \in 0 .. Len(memory) - 1 :
        ( /\ IsOccupied(At(memory, h))
          /\ ~(InRange(memory', h) /\ IsOccupied(At(memory', h))) )
        => /\ last'.op = "remove_owner"
           /\ last'.h = h
           /\ At(memory, h).rc = 1
\* free_if_dangling on an Occupied handle returns Ok(None).
FreeIfDanglingIdle ==
    ( /\ last'.op = "free_if_dangling"
      /\ InRange(memory, last'.h)
      /\ IsOccupied(At(memory, last'.h)) )
    => last'.ret = Ok("None", 0) /\ memory' = memory /\ first_free' = first_free

\* C15: the only operation that turns an Occupied slot into a Free one is a
\* remove_owner taking the count from 1 to 0; push, add_owner, replace,
\* data, status, free_if_dangling (always Ok(None) on an occupied handle)
\* and remove_memory_leaks leave every Occupied slot Occupied.
C15_SoleReclamationPath == [][OnlyLastRemoveFrees /\ FreeIfDanglingIdle]_vars
\* free_if_dangling was called on a value with a single owner and kept it.
C15_Witness ==
    /\ last.op = "free_if_dangling"
    /\ last.ret = Ok("None", 0)
    /\ InRange(memory, last.h)
    /\ IsOccupied(At(memory, last.h))
    /\ At(memory, last.h).rc = 1

\* A push that returned left every slot but the returned one as it was, and
\* the returned one holds the value with one owner.
PushFrame ==
    (last'.op = "push" /\ IsOk(last'.ret))
    => /\ \A h \in 0 .. Len(memory) - 1 :
            h # last'.ret.n => At(memory', h) = At(memory, h)
       /\ Len(memory') \in {Len(memory), Len(memory) + 1}
       /\ At(memory', last'.ret.n) = Occupied(last'.v, 1)

\* C16: push(v) changes only the slot at the returned handle (and the
\* free-list head or the length); every other slot keeps its tag, its value
\* and count if Occupied, its successor pointer if Free.
C16_PushFrame == [][PushFrame]_vars
\* A push reused a slot next to a shared value and a slot that stays Free.
C16_Witness ==
    /\ last.op = "push"
    /\ IsOk(last.ret)
    /\ last.ret.n < Len(memory) - 1
    /\ \E h \in 0 .. Len(memory) - 1 : IsFree(At(memory, h))
    /\ \E h \in 0 .. Len(memory) - 1 :
          h # last.ret.n /\ IsOccupied(At(memory, h)) /\ At(memory, h).rc >= 2

\* A push that returned handed out the handle collected last among those
\* outstanding, at the same length; with none outstanding it returned the
\* length and the store grew by one.
PopsLastCollected ==
    (last'.op = "push" /\ IsOk(last'.ret))
    => IF lifo.stack # <<>>
       THEN /\ last'.ret.n = lifo.stack[Len(lifo.stack)]
            /\ Len(memory') = Len(memory)
       ELSE /\ last'.ret.n = Len(memory)
            /\ Len(memory') = Len(memory) + 1

\* C17: handles h1, ..., hk collected in that order with no push in between,
\* from a state with no Free slot, are returned by the next k pushes as
\* hk, ..., h1 at an unchanged length, and the push after them returns the
\* old length and grows the store by one.
C17_LifoReuse == [][PopsLastCollected]_vars
\* Two or more handles were collected in a row from a full store, as many
\* pushes reused them and the push after those grew the store.
C17_Witness ==
    /\ last.op = "push"
    /\ lifo.grew
    /\ lifo.col >= 2
    /\ lifo.run = lifo.col
    /\ last.ret.n = Len(memory) - 1

\* The store after a defrag of `mem` with remap `remap`: the occupied slots
\* fill the front, the rest is Free, no value moved up, every value is read
\* at its remapped handle and a handle without entry kept its slot.
Compacted(mem, after, remap) ==
    LET k == NumOccupied(mem)
        R(h) == Remapped(remap, h)
        Occ == {h \in 0 .. Len(mem) - 1 : IsOccupied(At(mem, h))} IN
    /\ Len(after) = Len(mem)
    /\ \A h \in 0 .. Len(after) - 1 :
          IF h < k THEN IsOccupied(At(after, h)) ELSE IsFree(At(after, h))
    /\ \A h \in Occ :
          /\ R(h) <= h
          /\ \A c \in Builds : data(after, R(h), c) = data(mem, h, c)
          /\ At(after, R(h)).rc = At(mem, h).rc
          /\ R(h) # h <=> \E q \in remap : q[1] = h
    /\ \A q \in remap : q[1] \in Occ /\ q[2] < q[1]

C19_AllocatorAfterCompaction ==
    [][/\ last'.op \in {"defrag", "trim"} => WellFormed(memory', first_free')
       /\ last'.op = "trim" =>
             /\ FreeHandles(memory') = {}
             /\ \A c \in Builds :
                   next_allocated(memory', first_free', c) = Ok("Index", Len(memory'))
             /\ \A v \in Values :
                   push(memory', first_free', v).ret = Ok("Index", Len(memory'))]_vars

\* A call that returned an AccessError left the store as it was.
ErrorsKeepStore ==
    ( /\ last'.op \in {"add_owner", "remove_owner", "replace", "data",
                       "status", "free_if_dangling"}
      /\ IsErr(last'.ret) )
    => memory' = memory /\ first_free' = first_free

\* C20: whenever add_owner, remove_owner, replace, data, status or
\* free_if_dangling returns an AccessError, the store is as before the call:
\* same length, tags, values, counts, successor pointers and head.
C20_ErrorsChangeNothing == [][ErrorsKeepStore]_vars
\* add_owner was refused on a full count while the store has a free list.
C20_Witness ==
    /\ last.op = "add_owner"
    /\ last.ret = OwnershipOverflow
    /\ At(memory, last.h).rc = MaxCount
    /\ FreeHandles(memory) # {}

\* C21: remove_owner never returns OwnershipOverflow; on a collected handle
\* it returns FreeMemory, on a handle at or beyond the length
\* OutOfBoundsMemory, and on an occupied handle it succeeds.
C21_UnderflowUnreachable ==
    [][last'.op = "remove_owner" =>
         LET h == last'.h IN
             /\ last'.ret # OwnershipOverflow
             /\ h >= Len(memory) => last'.ret = OutOfBoundsMemory(h)
             /\ (InRange(memory, h) /\ IsFree(At(memory, h)))
                    => last'.ret = FreeMemory(h)
             /\ (InRange(memory, h) /\ IsOccupied(At(memory, h)))
                    => IsOk(last'.ret)]_vars

====
